---- MODULE Spec2Model ----
(***************************************************************************)
(* Model of the funtup combinator library (src/funtup.hpp): pipe, compose, *)
(* battery, auto_unpack and clone, driven by a caller that owns a pool of  *)
(* callables (those of src/funtup_test.cpp and a few more), builds one     *)
(* combinator from them, mutates its own objects and invokes the           *)
(* combinator.                                                             *)
(***************************************************************************)
EXTENDS Integers, Sequences, FiniteSets, TLC

(* ---------------------------------------------------------------- bounds *)
\* longest argument list given to pipe / compose
MaxStages == 3
\* longest argument list given to battery
MaxMembers == 2
\* integer arguments are drawn from 1..MaxArg
MaxArg == 2
\* the field k of the stateful callable addk ranges over 1..MaxK
MaxK == 2

(* ---------------------------------------------------------------- values *)
\* A value is a tagged record so that any two values can be compared.
IntV(n) == [tag |-> "int", xs |-> <<n>>]
TupV(a, b) == [tag |-> "tup", xs |-> <<a, b>>]
\* the natural "no value" of a void call
VoidV == [tag |-> "void", xs |-> <<>>]
\* struct void_t {}
void_t == [tag |-> "void_t", xs |-> <<>>]
\* the std::tuple a battery returns; its elements are kept in the field
\* slots of the outcome
AggV == [tag |-> "agg", xs |-> <<>>]
\* no value at all: the call raised, or nothing was called yet
NoV == [tag |-> "none", xs |-> <<>>]

\* value categories of an argument expression: named mutable object,
\* named const object, temporary
Cats == {"lv", "clv", "rv"}

Arg(v, cat) == [v |-> v, cat |-> cat]
\* the static type of an argument as template deduction sees it
ArgT(a) == [t |-> a.v.tag, cat |-> a.cat]
ArgTs(av) == [i \in 1..Len(av) |-> ArgT(av[i])]
Vals(av) == [i \in 1..Len(av) |-> av[i].v]

(* ------------------------------------------------------------- callables *)
\* A callable object: its class, its data member k (addk only), whether it
\* is wrapped in an apply_unpack_t, and for a compose_t object the callables
\* it holds.
Fn(kind, k, unpack) == [kind |-> kind, k |-> k, unpack |-> unpack, sub |-> <<>>]

\* a compose_t object that owns the callables fs
ComposeFn(fs) == [kind |-> "compose", k |-> 0, unpack |-> FALSE, sub |-> fs]

\* The caller's objects.  1..4 are callables of the test program.
Pool ==
  << Fn("add3", 0, FALSE), Fn("mul3", 0, FALSE), Fn("add", 0, FALSE),
     Fn("divint", 0, FALSE),
     \* struct addk { int k; int operator()(int a) const { return a + k; } };
     Fn("addk", 1, FALSE),
     \* struct incr { int operator()(int& a) const { return ++a; } };
     Fn("incr", 0, FALSE),
     \* struct note { void operator()(int) const {} void operator()(int, int) const {} };
     Fn("note", 0, FALSE),
     \* struct boom { int operator()(int a) const { throw a; } };
     Fn("boom", 0, FALSE),
     \* struct both { int operator()(int a, int b) const { return 10*a + b; }
     \*               int operator()(const std::tuple<int,int>&) const { return -1; } };
     Fn("both", 0, FALSE),
     \* auto_unpack(add())
     Fn("add", 0, TRUE) >>

NPool == Len(Pool)

AllInt(ats) == \A i \in 1..Len(ats) : ats[i].t = "int"

\* std::result_of<Func(Args...)>::type for an unwrapped callable; "bad" when
\* the call expression is ill-formed
RawRetT(f, ats) ==
  CASE f.kind \in {"add3", "mul3", "addk", "boom"} ->
         IF Len(ats) = 1 /\ AllInt(ats) THEN "int" ELSE "bad"
    [] f.kind = "add" ->
         IF Len(ats) = 2 /\ AllInt(ats) THEN "int" ELSE "bad"
    [] f.kind = "divint" ->
         IF Len(ats) = 2 /\ AllInt(ats) THEN "tup" ELSE "bad"
    [] f.kind = "incr" ->
         IF Len(ats) = 1 /\ AllInt(ats) /\ ats[1].cat = "lv" THEN "int" ELSE "bad"
    [] f.kind = "note" ->
         IF Len(ats) \in {1, 2} /\ AllInt(ats) THEN "void" ELSE "bad"
    [] f.kind = "both" ->
         IF Len(ats) = 2 /\ AllInt(ats) THEN "int"
         ELSE IF Len(ats) = 1 /\ ats[1].t = "tup" THEN "int" ELSE "bad"
    [] OTHER -> "bad"

\* The outcome of a call: st is "ok" or "throw", v the value returned, err
\* the error raised, av the argument objects after the call, slots the
\* elements of a returned aggregate, log the member calls performed.
Ret(v, av) == [st |-> "ok", v |-> v, err |-> 0, av |-> av, slots |-> <<>>, log |-> <<>>]
Throw(e, av) == [st |-> "throw", v |-> NoV, err |-> e, av |-> av, slots |-> <<>>, log |-> <<>>]

\* a call expression that does not compile; operator() is only instantiated
\* for well-typed calls, so no run of the library reaches it
IllFormed(av) == [st |-> "illformed", v |-> NoV, err |-> 0, av |-> av, slots |-> <<>>, log |-> <<>>]

\* the body of each callable
CallRaw(f, av) ==
  LET n(i) == av[i].v.xs[1] IN
  CASE RawRetT(f, ArgTs(av)) = "bad" -> IllFormed(av)
    [] f.kind = "add3" -> Ret(IntV(n(1) + 3), av)
    [] f.kind = "mul3" -> Ret(IntV(n(1) * 3), av)
    [] f.kind = "addk" -> Ret(IntV(n(1) + f.k), av)
    [] f.kind = "add" -> Ret(IntV(n(1) + n(2)), av)
    [] f.kind = "divint" -> Ret(TupV(n(1) \div n(2), n(1) % n(2)), av)
    [] f.kind = "incr" ->
         Ret(IntV(n(1) + 1), <<Arg(IntV(n(1) + 1), av[1].cat)>>)
    [] f.kind = "note" -> Ret(VoidV, av)
    [] f.kind = "boom" -> Throw(n(1), av)
    [] f.kind = "both" ->
         IF Len(av) = 2 THEN Ret(IntV(10 * n(1) + n(2)), av)
         ELSE Ret(IntV(0 - 1), av)
    [] OTHER -> IllFormed(av)

(* ----------------------------------------------------------- auto_unpack *)
Seq2(a, b) == <<a, b>>

\* std::get<I>(args)... for I = 0, 1: the elements of the tuple, in order,
\* as lvalues of the given constness
unpack_and_apply_args(t, ecat) ==
  Seq2(Arg(IntV(t.v.xs[1]), ecat), Arg(IntV(t.v.xs[2]), ecat))

IsOneTuple(ats) == Len(ats) = 1 /\ ats[1].t = "tup"
ElemTs(ecat) == Seq2([t |-> "int", cat |-> ecat], [t |-> "int", cat |-> ecat])

\* The viable operator() overloads of apply_unpack_t<Func> for an argument
\* list (an overload whose trailing return type is ill-formed drops out).
Viable(f, ats) ==
  (IF RawRetT(f, ats) # "bad" THEN {"forward"} ELSE {})
  \cup (IF IsOneTuple(ats) /\ ats[1].cat = "lv" /\ RawRetT(f, ElemTs("lv")) # "bad"
        THEN {"tuple_ref"} ELSE {})
  \cup (IF IsOneTuple(ats) /\ RawRetT(f, ElemTs("clv")) # "bad"
        THEN {"tuple_cref"} ELSE {})
  \cup (IF IsOneTuple(ats) /\ ats[1].cat = "rv" /\ RawRetT(f, ElemTs("lv")) # "bad"
        THEN {"tuple_rref"} ELSE {})

\* Overload resolution over the viable set c: a tuple overload that binds
\* the argument without adding const is more specialised than the generic
\* one and wins over it; the const tuple& overload wins over the generic one
\* only for a const argument, and loses to the other tuple overloads.
\* mutant: the generic forwarding overload is preferred when it is viable
Best_forward_first(c, ats) ==
  IF "forward" \in c THEN "forward"
  ELSE IF "tuple_ref" \in c THEN "tuple_ref"
  ELSE IF "tuple_rref" \in c THEN "tuple_rref"
  ELSE IF "tuple_cref" \in c THEN "tuple_cref"
  ELSE "none"

Best(c, ats) ==
  IF "tuple_ref" \in c THEN "tuple_ref"
  ELSE IF "tuple_rref" \in c THEN "tuple_rref"
  ELSE IF "tuple_cref" \in c /\ ("forward" \notin c \/ ats[1].cat = "clv") THEN "tuple_cref"
  ELSE IF "forward" \in c THEN "forward"
  ELSE IF "tuple_cref" \in c THEN "tuple_cref"
  ELSE "none"

\* the operator() overload of apply_unpack_t<Func> a call selects
Overload(f, ats) == Best(Viable(f, ats), ats)

\* the argument list the wrapped callable receives under each overload
UnpackArgs(o, av) ==
  CASE o = "tuple_ref" -> unpack_and_apply_args(av[1], "lv")
    [] o = "tuple_rref" -> unpack_and_apply_args(av[1], "lv")
    [] o = "tuple_cref" -> unpack_and_apply_args(av[1], "clv")
    [] OTHER -> av

\* the types of that argument list
UnpackArgTs(o, ats) ==
  CASE o = "tuple_ref" -> ElemTs("lv")
    [] o = "tuple_rref" -> ElemTs("lv")
    [] o = "tuple_cref" -> ElemTs("clv")
    [] OTHER -> ats

\* return type of apply_unpack_t<Func>::operator()
apply_unpack_RetT(f, ats) == RawRetT(f, UnpackArgTs(Overload(f, ats), ats))

\* the caller's argument objects after the call: the forwarding overload
\* hands them to the callable, the tuple overloads hand it the elements
Forwarded(r, o, av) == IF o = "forward" THEN r ELSE [r EXCEPT !.av = av]

unpack_and_apply(f, av, o) == Forwarded(CallRaw(f, UnpackArgs(o, av)), o, av)

\* apply_unpack_t<Func>::operator()
apply_unpack_t(f, av) == unpack_and_apply(f, av, Overload(f, ArgTs(av)))

\* calling a callable object, which may be an adapter
CallT(f, ats) ==
  IF f.unpack THEN apply_unpack_RetT(f, ats) ELSE RawRetT(f, ats)

Call(f, av) ==
  IF f.unpack THEN apply_unpack_t(f, av) ELSE CallRaw(f, av)

\* one performed member call: the position of the callable in the factory's
\* argument list, the arguments it received and how it ended
Entry(i, av, r) == [i |-> i, in |-> av, st |-> r.st, err |-> r.err]

\* the outcome r of calling member i on av, with the call entered in the log
Logged(r, i, av) == [r EXCEPT !.log = r.log \o <<Entry(i, av, r)>>]

\* a returned value passed on as the sole argument of the next call
Temp(v) == <<Arg(v, "rv")>>
TempT(t) == <<[t |-> t, cat |-> "rv"]>>

\* the outcome t of a later call, seen by the caller of the chain whose
\* earlier calls ended in r
Then(r, t) == [t EXCEPT !.log = r.log \o t.log, !.av = r.av]

(* ------------------------------------------------------------------ pipe *)
\* result_of<pipe_t<Tails...>(result_of<Head(Args&&...)>::type)>
RECURSIVE pipe_RetT(_, _)
pipe_RetT(fs, ats) ==
  IF Len(fs) = 1 THEN CallT(fs[1], ats)
  ELSE pipe_RetT(Tail(fs), TempT(CallT(fs[1], ats)))

\* pipe_t<Head>::operator() and pipe_t<Head, Tails...>::operator(); i is the
\* position of Head in the factory's argument list, r the outcome of head_m
RECURSIVE pipe_t(_, _, _)
RECURSIVE pipe_tails(_, _, _)
\* mutant: an exception of the head is caught and the chain goes on with 0
pipe_tails_swallow(tails, r, i) ==
  Then(r, pipe_t(tails, Temp(IF r.st = "throw" THEN IntV(0) ELSE r.v), i))

pipe_tails(tails, r, i) ==
  IF r.st = "throw" THEN r ELSE Then(r, pipe_t(tails, Temp(r.v), i))

\* mutant: the chain starts from its last functor
pipe_t_last_first(fs, av, i) ==
  IF Len(fs) = 1 THEN Logged(Call(fs[1], av), i, av)
  ELSE pipe_tails(SubSeq(fs, 1, Len(fs) - 1), Logged(Call(fs[Len(fs)], av), i, av), i + 1)

pipe_t(fs, av, i) ==
  IF Len(fs) = 1 THEN Logged(Call(fs[1], av), i, av)
  ELSE pipe_tails(Tail(fs), Logged(Call(fs[1], av), i, av), i + 1)

(* --------------------------------------------------------------- compose *)
\* compose_t<Head, Tail>::operator() of a composition of two callables that
\* is itself held by another composition
compose2_RetT(fs, ats) == CallT(fs[1], TempT(CallT(fs[2], ats)))

compose2_head(f, t) ==
  IF t.st = "throw" THEN t ELSE Then(t, Logged(Call(f, Temp(t.v)), 1, Temp(t.v)))

compose2_t(fs, av) == compose2_head(fs[1], Logged(Call(fs[2], av), 2, av))

\* calling a member of a composition, which may itself be a composition
StageT(f, ats) ==
  IF f.kind = "compose" THEN compose2_RetT(f.sub, ats) ELSE CallT(f, ats)

\* (the log keeps the calls of the outer composition's own members)
Stage(f, av) ==
  IF f.kind = "compose" THEN [compose2_t(f.sub, av) EXCEPT !.log = <<>>]
  ELSE Call(f, av)

\* result_of<Head(result_of<compose_t<Tails...>(Args&&...)>::type)>
RECURSIVE compose_RetT(_, _)
compose_RetT(fs, ats) ==
  IF Len(fs) = 1 THEN StageT(fs[1], ats)
  ELSE StageT(fs[1], TempT(compose_RetT(Tail(fs), ats)))

\* head_m applied to the outcome t of the base class compose_t<Tails...>
compose_head(f, t, i) ==
  IF t.st = "throw" THEN t ELSE Then(t, Logged(Stage(f, Temp(t.v)), i, Temp(t.v)))

\* compose_t<Head>::operator() and compose_t<Head, Tails...>::operator()
RECURSIVE compose_t(_, _, _)
\* mutant: the composition runs its functors front to back, as a pipe does
compose_t_as_pipe(fs, av, i) == pipe_t(fs, av, i)

compose_t(fs, av, i) ==
  IF Len(fs) = 1 THEN Logged(Stage(fs[1], av), i, av)
  ELSE compose_head(fs[1], compose_t(Tail(fs), av, i + 1), i)

(* --------------------------------------------------------------- battery *)
\* returns_void<Func, Args...>
returns_void(f, ats) == CallT(f, ats) = "void"

\* the result of the overload of _apply_novoid that returns_void enables
\* mutant: the result of a void call is stored as it is
novoid_keep(r, isvoid) == r

novoid(r, isvoid) ==
  IF isvoid /\ r.st = "ok" THEN [r EXCEPT !.v = void_t] ELSE r

_apply_novoid(f, av) == novoid(Call(f, av), returns_void(f, ArgTs(av)))

battery_RetT(fs, ats) ==
  IF \A i \in 1..Len(fs) : CallT(fs[i], ats) # "bad" THEN "agg" ELSE "bad"

\* the orders in which the elements of the pack expansion may be evaluated
Orders(n) == {o \in [1..n -> 1..n] : \A i, j \in 1..n : o[i] = o[j] => i = j}

\* element i of the pack expansion evaluated to r: a value goes into its
\* place of the tuple under construction, an exception leaves the expression
\* mutant: the results are stored in the order the calls were performed
make_tuple_call_order(acc, i, r) ==
  IF r.st = "throw" THEN [r EXCEPT !.log = acc.log \o r.log]
  ELSE [acc EXCEPT !.slots[Len(acc.log) + 1] = r.v, !.av = r.av, !.log = acc.log \o r.log]

make_tuple(acc, i, r) ==
  IF r.st = "throw" THEN [r EXCEPT !.log = acc.log \o r.log]
  ELSE [acc EXCEPT !.slots[i] = r.v, !.av = r.av, !.log = acc.log \o r.log]

\* _apply_tuple: the member calls of the pack expansion, performed in the
\* order todo, all on the same argument objects; acc is the outcome so far
RECURSIVE _apply_tuple(_, _, _)
_apply_tuple(fs, todo, acc) ==
  IF todo = <<>> \/ acc.st = "throw" THEN acc
  ELSE _apply_tuple(fs, Tail(todo),
         make_tuple(acc, todo[1],
                    Logged(_apply_novoid(fs[todo[1]], acc.av), todo[1], acc.av)))

\* battery_t::operator() -> apply_tuple -> _apply_tuple
battery_t(fs, av, order) ==
  _apply_tuple(fs, order,
     [st |-> "ok", v |-> AggV, err |-> 0, av |-> av,
      slots |-> [i \in 1..Len(fs) |-> NoV], log |-> <<>>])

(* ----------------------------------------------------------------- state *)
VARIABLES
  objs,    \* the caller's callable objects, by identity 1..NPool
  comb,    \* the combinator the caller holds: its class and its head_m members
  ctor,    \* the arguments the factory was called with, as they were then
  args,    \* the argument list of the last invocation, as passed
  res,     \* the outcome of the last invocation
  cloned   \* the outcome of the last clone(f)

vars == <<objs, comb, ctor, args, res, cloned>>

NoFn == Fn("none", 0, FALSE)
NoComb == [type |-> "none", slots |-> <<>>]
NoRes ==
  [st |-> "none", v |-> NoV, err |-> 0, av |-> <<>>, slots |-> <<>>,
   log |-> <<>>, fs |-> <<>>]
NoClone == [st |-> "none", id |-> 0, val |-> NoFn, at |-> NoFn]

\* Member head_m of type Head, initialised with std::forward<Head>(head):
\* Head is F& for an lvalue argument, so the member is a reference to the
\* caller's object; Head is F for an rvalue, so the member is a new object
\* move-constructed from it.
\* mutant: the member is a reference whatever the argument's category
head_m_ref(a, o) == [ref |-> TRUE, id |-> a.id, val |-> NoFn]

head_m(a, o) ==
  IF a.cat = "lv" THEN [ref |-> TRUE, id |-> a.id, val |-> NoFn]
  ELSE [ref |-> FALSE, id |-> 0, val |-> o[a.id]]

\* the callable a member denotes
Resolve(slot, o) == IF slot.ref THEN o[slot.id] ELSE slot.val

Stored(c, o) == [i \in 1..Len(c.slots) |-> Resolve(c.slots[i], o)]

Init ==
  /\ objs = Pool
  /\ comb = NoComb
  /\ ctor = <<>>
  /\ args = <<>>
  /\ res = NoRes
  /\ cloned = NoClone

\* pipe(funcs...), compose(funcs...), battery(funcs...), auto_unpack(func)
Build(type, ins) ==
  /\ comb' = [type |-> type, slots |-> [i \in 1..Len(ins) |-> head_m(ins[i], objs)]]
  /\ ctor' = [i \in 1..Len(ins) |-> [id |-> ins[i].id, cat |-> ins[i].cat, val |-> objs[ins[i].id]]]
  /\ UNCHANGED <<objs, args, res, cloned>>

\* the caller assigns to the data member of one of its own objects: f.k = k
Mutate(id, k) ==
  /\ objs[id].kind = "addk"
  /\ objs[id].k # k
  /\ objs' = [objs EXCEPT ![id].k = k]
  /\ UNCHANGED <<comb, ctor, args, res, cloned>>

\* the caller holds no combinator
Idle == comb.type = "none"

\* the caller holds no result: it changes its objects and invokes, then
\* looks at the result
Fresh == res.st = "none"

\* operator() of the combinator, as instantiated for the argument types
RetT(type, fs, ats) ==
  CASE type = "pipe" -> pipe_RetT(fs, ats)
    [] type = "compose" -> compose_RetT(fs, ats)
    [] type = "battery" -> battery_RetT(fs, ats)
    [] type = "auto_unpack" -> apply_unpack_RetT(fs[1], ats)
    [] OTHER -> "bad"

Ident(n) == [i \in 1..n |-> i]

Operator(type, fs, av, order) ==
  CASE type = "pipe" -> pipe_t(fs, av, 1)
    [] type = "compose" -> compose_t(fs, av, 1)
    [] type = "battery" -> battery_t(fs, av, order)
    [] OTHER -> Logged(apply_unpack_t(fs[1], av), 1, av)

\* The objects the caller passes to a factory by name; the others are passed
\* as temporaries, as the test program does.  Only addk has state, so only
\* for it do the two ways differ.
Named == {i \in 1..NPool : Pool[i].kind = "addk"}

\* one factory argument: which object and its value category
FactoryArgs ==
  {[id |-> i, cat |-> "rv"] : i \in 1..NPool} \cup {[id |-> i, cat |-> "lv"] : i \in Named}

RECURSIVE SeqsUpTo(_, _)
SeqsUpTo(S, n) ==
  IF n = 0 THEN {<<>>}
  ELSE LET r == SeqsUpTo(S, n - 1) IN
       r \cup {Append(q, x) : q \in {q \in r : Len(q) = n - 1}, x \in S}

\* the argument lists the caller invokes a combinator with
ArgLists ==
  {<<Arg(IntV(a), c)>> : a \in 1..MaxArg, c \in {"lv", "rv"}}
  \cup {Seq2(Arg(IntV(a), "rv"), Arg(IntV(b), "rv")) : a \in 1..MaxArg, b \in 1..MaxArg}
  \cup {<<Arg(TupV(a, b), c)>> : a \in 1..MaxArg, b \in 1..MaxArg, c \in Cats}

\* A combinator can be built from any callables, but operator() only
\* compiles for argument types its members accept: the caller builds the
\* combinators it can invoke with some argument list.
Invocable(type, ins) ==
  \E av \in ArgLists : RetT(type, [i \in 1..Len(ins) |-> Pool[ins[i].id]], ArgTs(av)) # "bad"

\* the argument lists the caller gives to each factory
PipeLists == {q \in SeqsUpTo(FactoryArgs, MaxStages) \ {<<>>} : Invocable("pipe", q)}
ComposeLists == {q \in SeqsUpTo(FactoryArgs, MaxStages) \ {<<>>} : Invocable("compose", q)}
BatteryLists == {q \in SeqsUpTo(FactoryArgs, MaxMembers) \ {<<>>} : Invocable("battery", q)}
UnpackLists ==
  {q \in {<<a>> : a \in {a \in FactoryArgs : ~Pool[a.id].unpack}} : Invocable("auto_unpack", q)}

StageLists(type) ==
  CASE type = "pipe" -> PipeLists
    [] type = "compose" -> ComposeLists
    [] type = "battery" -> BatteryLists
    [] OTHER -> UnpackLists

\* the orders the member calls of one invocation may be performed in: a
\* chain fixes it, the pack expansion of a battery leaves it open
OrdersOf(c) ==
  IF c.type = "battery" THEN Orders(Len(c.slots)) ELSE {Ident(Len(c.slots))}

\* the caller invokes the combinator it holds
Invoke(av, order) ==
  LET fs == Stored(comb, objs) IN
  /\ ~Idle
  /\ RetT(comb.type, fs, ArgTs(av)) # "bad"
  /\ args' = av
  /\ res' = Operator(comb.type, fs, av, order) @@ [fs |-> fs]
  /\ UNCHANGED <<objs, comb, ctor, cloned>>

\* the combinator and the last result go out of scope
Reset ==
  /\ ~Idle
  /\ comb' = NoComb
  /\ ctor' = <<>>
  /\ args' = <<>>
  /\ res' = NoRes
  /\ UNCHANGED <<objs, cloned>>

\* compose(compose(f, g), h) and compose(f, compose(g, h)): the inner
\* composition is a temporary, so the outer one owns it by value
ComposeLeft(ins) ==
  /\ comb' = [type |-> "compose",
              slots |-> Seq2([ref |-> FALSE, id |-> 0,
                              val |-> ComposeFn(Seq2(objs[ins[1].id], objs[ins[2].id]))],
                             head_m(ins[3], objs))]
  /\ ctor' = [i \in 1..3 |-> [id |-> ins[i].id, cat |-> ins[i].cat, val |-> objs[ins[i].id]]]
  /\ UNCHANGED <<objs, args, res, cloned>>

ComposeRight(ins) ==
  /\ comb' = [type |-> "compose",
              slots |-> Seq2(head_m(ins[1], objs),
                             [ref |-> FALSE, id |-> 0,
                              val |-> ComposeFn(Seq2(objs[ins[2].id], objs[ins[3].id]))])]
  /\ ctor' = [i \in 1..3 |-> [id |-> ins[i].id, cat |-> ins[i].cat, val |-> objs[ins[i].id]]]
  /\ UNCHANGED <<objs, args, res, cloned>>

\* three callables passed as temporaries that compose
Triples ==
  {q \in SeqsUpTo({a \in FactoryArgs : a.cat = "rv"}, 3) : Len(q) = 3 /\ Invocable("compose", q)}

\* clone(x): std::decay<T>::type(std::forward<T>(x)) is written without
\* typename, so a conforming compiler rejects every instantiation and no
\* copy exists; a compiler that accepts the omission yields the decayed copy
clone(id) ==
  /\ cloned' \in {[st |-> "ill_formed", id |-> id, val |-> NoFn, at |-> objs[id]],
                  [st |-> "ok", id |-> id, val |-> objs[id], at |-> objs[id]]}
  /\ UNCHANGED <<objs, comb, ctor, args, res>>

\* the caller invokes the copy it got from clone
InvokeClone(av) ==
  /\ cloned.st = "ok"
  /\ CallT(cloned.val, ArgTs(av)) # "bad"
  /\ args' = av
  /\ res' = Logged(Call(cloned.val, av), 1, av) @@ [fs |-> <<cloned.val>>]
  /\ UNCHANGED <<objs, comb, ctor, cloned>>

\* the copy and the last result go out of scope
DropClone ==
  /\ cloned.st # "none"
  /\ cloned' = NoClone
  /\ args' = <<>>
  /\ res' = NoRes
  /\ UNCHANGED <<objs, comb, ctor>>

Next ==
  \/ /\ Idle
     /\ \E type \in {"pipe", "compose", "battery", "auto_unpack"} :
          \E ins \in StageLists(type) : Build(type, ins)
  \/ /\ Fresh
     /\ \E id \in 1..NPool, k \in 1..MaxK : Mutate(id, k)
  \/ /\ Fresh
     /\ \E av \in ArgLists, order \in OrdersOf(comb) : Invoke(av, order)
  \/ Reset

Spec == Init /\ [][Next]_vars

\* the caller regroups a composition of three callables
NextAssoc ==
  \/ /\ Idle
     /\ \E ins \in Triples : Build("compose", ins)
  \/ /\ Idle
     /\ \E ins \in Triples : ComposeLeft(ins)
  \/ /\ Idle
     /\ \E ins \in Triples : ComposeRight(ins)
  \/ /\ Fresh
     /\ \E av \in ArgLists, order \in OrdersOf(comb) : Invoke(av, order)
  \/ Reset

SpecAssoc == Init /\ [][NextAssoc]_vars

\* the caller copies its callables with clone
NextClone ==
  \/ \E id \in 1..NPool : clone(id)
  \/ \E id \in 1..NPool, k \in 1..MaxK : Mutate(id, k)
  \/ /\ Fresh
     /\ \E av \in ArgLists : InvokeClone(av)
  \/ DropClone

SpecClone == Init /\ [][NextClone]_vars

(* ---------------------------------------------------------------- claims *)
\* the callables and the order of member calls, read off the state
CtorVals == [i \in 1..Len(ctor) |-> ctor[i].val]
LogOrder == [j \in 1..Len(res.log) |-> res.log[j].i]
ArgTypes == ArgTs(args)
NStages == Len(res.fs)

SameResult(r, e) == r.st = e.st /\ r.v = e.v /\ r.err = e.err /\ r.slots = e.slots

\* fn(...f2(f1(av))...): the value of feeding f1..fn front to back
RECURSIVE FoldL(_, _, _)
FoldL(fs, av, n) ==
  IF n = 1 THEN Call(fs[1], av).v ELSE Call(fs[n], Temp(FoldL(fs, av, n - 1))).v

\* fi(...(fn(av))...): the value of feeding fn..fi back to front
RECURSIVE FoldR(_, _, _)
FoldR(fs, av, i) ==
  IF i = Len(fs) THEN Call(fs[i], av).v ELSE Call(fs[i], Temp(FoldR(fs, av, i + 1))).v

RECURSIVE Reverse(_)
Reverse(q) == IF q = <<>> THEN <<>> ELSE Append(Reverse(Tail(q)), Head(q))

\* fi(A) as a storable value: the sentinel stands for "no value"
Storable(f, av) == IF Call(f, av).v = VoidV THEN void_t ELSE Call(f, av).v

\* C1 (as stated): compose(c0, ..., cn-1)(args) equals cn-1(...c1(c0(args))...),
\* c0 receiving the original arguments, whenever that chain is well typed.
C1_ComposeFrontToBack ==
  (comb.type = "compose" /\ res.st = "ok" /\ pipe_RetT(res.fs, ArgTypes) # "bad")
    => res.v = FoldL(res.fs, args, NStages)

\* C1 (amended): compose(c0, ..., cn-1)(args) equals c0(c1(...cn-1(args)...)):
\* cn-1 is called first and receives the original arguments, each earlier
\* stage receives exactly the result of the stage after it as its only
\* argument, the overall result is c0's; for N = 1 it is c0(args).
C1_ComposeBackToFront ==
  (comb.type = "compose" /\ res.st = "ok")
    => /\ res.v = FoldR(res.fs, args, 1)
       /\ Len(res.log) = NStages
       /\ res.log[1].i = NStages /\ res.log[1].in = args
       /\ \A j \in 2..NStages :
            /\ res.log[j].i = NStages - j + 1
            /\ res.log[j].in = Temp(FoldR(res.fs, args, NStages - j + 2))

C1_Witness ==
  /\ comb.type = "compose" /\ res.st = "ok" /\ NStages = 2
  /\ res.fs[1].kind = "add3" /\ res.fs[2].kind = "mul3"
  /\ args = <<Arg(IntV(2), "rv")>>
  /\ res.v = IntV(9)

\* C2: pipe(f0, ..., fn-1)(args) equals fn-1(...f1(f0(args))...): the first
\* functor is called with the provided arguments, every later one with the
\* output of the previous one, and the result is that of the last functor.
C2_PipeFrontToBack ==
  (comb.type = "pipe" /\ res.st = "ok")
    => /\ res.v = FoldL(res.fs, args, NStages)
       /\ Len(res.log) = NStages
       /\ res.log[1].i = 1 /\ res.log[1].in = args
       /\ \A j \in 2..NStages :
            /\ res.log[j].i = j
            /\ res.log[j].in = Temp(FoldL(res.fs, args, j - 1))

\* pipe(add3, mul3)(2) == 15
C2_Witness ==
  /\ comb.type = "pipe" /\ res.st = "ok" /\ NStages = 2
  /\ res.fs[1].kind = "add3" /\ res.fs[2].kind = "mul3"
  /\ args = <<Arg(IntV(2), "rv")>>
  /\ res.v = IntV(15)

\* C3 (as stated): battery(f0, ..., fn-1)(A) invokes every fi with the same
\* argument values A and returns n elements, the i-th equal to fi(A),
\* whatever the order of the member calls.
C3_BatteryAnyCallables ==
  (comb.type = "battery" /\ res.st = "ok")
    => /\ Len(res.slots) = NStages
       /\ \A i \in 1..NStages : res.slots[i] = Storable(res.fs[i], args)
       /\ \A j \in 1..Len(res.log) : Vals(res.log[j].in) = Vals(args)

\* no member callable modifies the arguments it is called with
ArgsUntouched == \A i \in 1..NStages : Call(res.fs[i], args).av = args

\* C3 (amended): for callables that do not modify their arguments,
\* battery(f0, ..., fn-1)(A) invokes every fi once with the argument values A
\* and returns n elements, the i-th equal to fi(A), whatever the order of
\* the member calls.
C3_BatteryPureCallables ==
  (comb.type = "battery" /\ res.st = "ok" /\ ArgsUntouched)
    => /\ Len(res.slots) = NStages
       /\ \A i \in 1..NStages : res.slots[i] = Storable(res.fs[i], args)
       /\ Len(res.log) = NStages
       /\ \A i \in 1..NStages : \E j \in 1..Len(res.log) : res.log[j].i = i
       /\ \A j \in 1..Len(res.log) : Vals(res.log[j].in) = Vals(args)

\* battery(add3, mul3)(2) with mul3 called first
C3_Witness ==
  /\ comb.type = "battery" /\ res.st = "ok" /\ NStages = 2 /\ ArgsUntouched
  /\ res.fs[1].kind = "add3" /\ res.fs[2].kind = "mul3"
  /\ LogOrder = Seq2(2, 1)
  /\ args = <<Arg(IntV(2), "lv")>>
  /\ res.slots = Seq2(IntV(5), IntV(6))

\* the elements of a tuple argument, in order
Elements(a) ==
  LET c == IF a.cat = "clv" THEN "clv" ELSE "lv" IN
  Seq2(Arg(IntV(a.v.xs[1]), c), Arg(IntV(a.v.xs[2]), c))

\* C4: auto_unpack(g) invoked with exactly one tuple argument t (named,
\* const or temporary) whose elements are compatible with g's parameters
\* yields g(get(t,0), ..., get(t,k-1)); invoked with any other argument list
\* it yields g of that list, unchanged.
C4_AutoUnpackDispatch ==
  (comb.type = "auto_unpack" /\ res.st # "none")
    => IF IsOneTuple(ArgTypes) /\ RawRetT(res.fs[1], ArgTs(Elements(args[1]))) # "bad"
       THEN SameResult(res, CallRaw(res.fs[1], Elements(args[1])))
       ELSE SameResult(res, CallRaw(res.fs[1], args))

\* auto_unpack(both) on a temporary tuple (2, 1): both's two-argument
\* overload is called, not the one taking a tuple
C4_Witness ==
  /\ comb.type = "auto_unpack" /\ res.st = "ok"
  /\ res.fs[1].kind = "both"
  /\ args = <<Arg(TupV(2, 1), "rv")>>
  /\ res.v = IntV(21)

\* C5: in a battery invocation every member whose natural result is void has
\* been invoked and has its slot filled with void_t, every other member has
\* its slot filled with the value it returned, and there is one slot per
\* member.
C5_VoidSentinel ==
  (comb.type = "battery" /\ res.st = "ok")
    => /\ Len(res.slots) = NStages
       /\ \A i \in 1..NStages : \E j \in 1..Len(res.log) :
            /\ res.log[j].i = i
            /\ LET nat == Call(res.fs[i], res.log[j].in).v IN
               res.slots[i] = (IF nat = VoidV THEN void_t ELSE nat)

C5_Witness ==
  /\ comb.type = "battery" /\ res.st = "ok" /\ NStages = 2
  /\ res.fs[1].kind = "note" /\ res.fs[2].kind = "add"
  /\ res.slots[1] = void_t /\ res.slots[2] = IntV(3)

\* C6 (as stated): every combinator holds its own copy of each callable it
\* was built from, named objects included: mutations of the caller's objects
\* change neither the stored callables nor the results of later invocations.
C6_OwnsEveryCallable ==
  ~Idle =>
    /\ Stored(comb, objs) = CtorVals
    /\ res.st = "ok" => SameResult(res, Operator(comb.type, CtorVals, args, LogOrder))

AllTemporaries == \A i \in 1..Len(ctor) : ctor[i].cat = "rv"

\* C6 (amended): a combinator holds its own copy of each callable passed to
\* the factory as an rvalue (a temporary or a moved object), which mutations
\* of the caller's objects do not change, so a combinator built from rvalues
\* only returns what it would have returned without them; a callable passed
\* as a named object is held by reference and follows the caller's object.
C6_OwnsTemporaries ==
  ~Idle =>
    /\ \A i \in 1..Len(ctor) :
         Stored(comb, objs)[i] =
           (IF ctor[i].cat = "rv" THEN ctor[i].val ELSE objs[ctor[i].id])
    /\ (AllTemporaries /\ res.st = "ok")
         => SameResult(res, Operator(comb.type, CtorVals, args, LogOrder))

\* a combinator built from a temporary addk, invoked after the caller's
\* addk was given another k
C6_Witness ==
  /\ ~Idle /\ AllTemporaries /\ res.st = "ok"
  /\ \E i \in 1..Len(ctor) :
       ctor[i].val.kind = "addk" /\ objs[ctor[i].id].k # ctor[i].val.k

\* C7: when a wrapped callable raises an error, the invocation of the
\* combinator ends with that same error and without a result value, and no
\* member call is performed after the failing one.
C7_ErrorPropagates ==
  \A j \in 1..Len(res.log) :
    res.log[j].st = "throw"
      => /\ res.st = "throw"
         /\ res.err = res.log[j].err
         /\ res.v = NoV /\ res.slots = <<>>
         /\ j = Len(res.log)

\* pipe(add3, boom, mul3)(2): boom raises 5 and mul3 is not called
C7_Witness ==
  /\ comb.type = "pipe" /\ NStages = 3
  /\ res.fs[2].kind = "boom"
  /\ res.st = "throw" /\ res.err = 5
  /\ Len(res.log) = 2

\* C8 (as stated): compose(compose(f, g), h)(x), compose(f, compose(g, h))(x)
\* and compose(f, g, h)(x) are all equal, and equal to h(g(f(x))).
C8_AssocFrontToBack ==
  (~Idle /\ res.st = "ok" /\ pipe_RetT(CtorVals, ArgTypes) # "bad")
    => /\ SameResult(res, compose_t(CtorVals, args, 1))
       /\ res.v = FoldL(CtorVals, args, 3)

\* C8 (amended): compose(compose(f, g), h)(x), compose(f, compose(g, h))(x)
\* and compose(f, g, h)(x) are all equal, and equal to f(g(h(x))).
C8_AssocBackToFront ==
  (~Idle /\ res.st # "none")
    => /\ SameResult(res, compose_t(CtorVals, args, 1))
       /\ res.st = "ok" => res.v = FoldR(CtorVals, args, 1)

\* compose(compose(add3, mul3), addk)(2) == (2 + 1) * 3 + 3
C8_Witness ==
  /\ ~Idle /\ res.st = "ok"
  /\ Len(comb.slots) = 2 /\ comb.slots[1].val.kind = "compose"
  /\ CtorVals[1].kind = "add3" /\ CtorVals[2].kind = "mul3" /\ CtorVals[3].kind = "addk"
  /\ args = <<Arg(IntV(2), "rv")>>
  /\ res.v = IntV(12)

\* C9: compose(f, g)(args) equals f(g(args)): the last callable given to
\* compose receives the original arguments and the first one produces the
\* overall result; compose(fs)(args) equals pipe of the reversed list.
C9_ComposeIsReversedPipe ==
  (comb.type = "compose" /\ res.st # "none")
    => /\ SameResult(res, pipe_t(Reverse(res.fs), args, 1))
       /\ (NStages = 2 /\ res.st = "ok")
            => /\ res.v = Call(res.fs[1], Temp(Call(res.fs[2], args).v)).v
               /\ res.log[1].i = 2 /\ res.log[1].in = args
               /\ res.log[2].i = 1

\* compose(auto_unpack(add), divint)(2, 1) == 2 / 1 + 2 % 1
C9_Witness ==
  /\ comb.type = "compose" /\ res.st = "ok" /\ NStages = 2
  /\ res.fs[1] = Fn("add", 0, TRUE) /\ res.fs[2].kind = "divint"
  /\ args = Seq2(Arg(IntV(2), "rv"), Arg(IntV(1), "rv"))
  /\ res.v = IntV(2)

\* C10: clone(f) returns an independent duplicate of f: it yields a copy
\* equal to f as f was then, and invoking the copy later returns what f
\* returned at the time of the copy, whatever was done to f since.
C10_CloneIndependent ==
  /\ cloned.st # "none" => (cloned.st = "ok" /\ cloned.val = cloned.at)
  /\ (cloned.st = "ok" /\ res.st # "none")
       => SameResult(res, Call(cloned.at, args))

====
